---- MODULE Spec2Model ----
(***************************************************************************)
(* Model of skytemple_dtef.explorers_dtef_importer.ExplorersDtefImporter:  *)
(* the DTEF tileset importer (do_import and the helpers it calls).         *)
(*                                                                         *)
(* A chunk image is modelled by its pixel content: a number, 0 being the   *)
(* block whose pixels are all 0 (EMPTY_IMAGE).  The neighbor-mapping table *)
(* (Dma.chunk_mappings, a flat list of integers) is modelled as the        *)
(* finitely supported function of its non-zero entries.                    *)
(*                                                                         *)
(* Two importers, each on its own target, are modelled side by side.  A    *)
(* do_import call is made either on target 2 alone or on both targets with *)
(* the same package, so that the results of importing one package into two *)
(* targets with different histories can be compared.                       *)
(***************************************************************************)
EXTENDS Integers, Sequences, FiniteSets, TLC

\* ---------------------------------------------------------------- bounds
\* Non-empty pixel contents a cell can hold.
NContents == 2
\* Painted cells, undersized images, foreign palettes and defects of the
\* package (a missing or malformed file) a behaviour may read.
MaxInk == 2
\* Those a call on target 2 alone may read.
MaxSoloInk == 1
\* XML elements below the root a behaviour may read; each also takes up half
\* the room of a painted cell.
MaxXml == 3
\* do_import calls in one behaviour.
MaxImports == 2
\* Frames in one animation element.
MaxFrames == 2

\* ------------------------------------------------------------- constants
DPC_TILING_DIM == 3
DPCI_TILE_DIM == 8
CHUNK_DIM == DPC_TILING_DIM * DPCI_TILE_DIM
EMPTY_IMAGE == 0

\* Width and height of one terrain band of a tile sheet, in chunks
\* (skytemple_dtef.explorers_dtef, scaled down).
TILESHEET_WIDTH == 2
TILESHEET_HEIGHT == 1

\* get_rule_variations(REMAP_RULES).values() in iteration order: entry i is
\* the set of raw neighbor patterns that share the chunk at grid position i.
RuleVariations == << {0, 1}, {4, 5, 17} >>

\* Size of each extra-slot group of the mapping table (Dma.set_extra).
DMA_EXTRA_SLOTS == 16

Targets == {1, 2}
Contents == 0..NContents
Palettes == {1, 2}
None == 0

DmaTypes == <<"WALL", "WATER", "FLOOR">>
SheetNames == <<"var0.png", "var1.png", "var2.png">>

VARIABLES
  getdata_eq,   \* what == means on two Image.getdata() objects in this build
  imp,          \* imp[t]: the importer working on target t, with its target models
  pc,           \* position inside do_import
  cur,          \* loop variables of do_import: sheet index and band index
  result,       \* result[t]: "none", "running", "ok" or "failed" (last call on t)
  active,       \* the targets of the current (or last) do_import call
  files,        \* the package files read so far in this call
  xmlseen,      \* the animation elements read so far in this call
  crops,        \* the crop boxes of the last _import_tileset call
  last,         \* the input element handled by the last step
  pre,          \* pre[t]: target models of t just before the current call
  good,         \* good[t]: the table of t's last successful call, else the caller's
  ink,          \* painted cells, undersized images, foreign palettes read so far
  detail,       \* XML elements below the root read so far
  calls         \* do_import calls started so far

vars == <<getdata_eq, imp, pc, cur, result, active, files, xmlseen, crops, last,
          pre, good, ink, detail, calls>>

\* ------------------------------------------------- neighbor-mapping table
ZeroTable == [k \in {} |-> 0]

Get(tab, k) == IF k \in DOMAIN tab THEN tab[k] ELSE 0

Put(tab, k, v) ==
  IF v = 0
    THEN [x \in (DOMAIN tab) \ {k} |-> tab[x]]
    ELSE [x \in (DOMAIN tab) \cup {k} |-> IF x = k THEN v ELSE tab[x]]

\* self.dma.set(typ, rule, var_id, chunk_index)
dma_set(tab, typ, rule, var_id, chunk_index) ==
  Put(tab, <<typ, rule, var_id>>, chunk_index)

\* self.dma.set_extra(extra_type, index, chunk)
dma_set_extra(tab, extra_type, index, chunk_index) ==
  Put(tab, <<extra_type, index, 0>>, chunk_index)

\* The contents the caller's tables and models hold before the importers
\* are constructed.
CallerTable(t) ==
  [k \in {<<"WALL", 0, 0>>, <<"FLOOR", 17, 2>>, <<"FLOOR1", 1, 0>>} |-> 4 + t]

CallerModels(t) ==
  [tiles |-> <<t>>, palettes |-> 2 + t, colors |-> <<>>, durations |-> <<>>]

\* ------------------------------------------------------------- importer
\* __init__ without line 68: the table is left as it is.
init_keep_table(dma, models) ==
  [ dma        |-> dma,
    original   |-> dma,
    chunks     |-> <<EMPTY_IMAGE>>,
    palette    |-> None,
    file_map   |-> {},
    chunk_map  |-> [f \in {} |-> ZeroTable],
    xml        |-> "none",
    dpla_colors    |-> <<>>,
    dpla_durations |-> <<>>,
    ani0 |-> <<>>, ani1 |-> <<>>, dur0 |-> 0, dur1 |-> 0,
    chunk  |-> 0,
    raised |-> FALSE,
    models |-> models ]

\* ExplorersDtefImporter.__init__
init(dma, models) ==
  [ dma        |-> ZeroTable,
    original   |-> dma,
    chunks     |-> <<EMPTY_IMAGE>>,
    palette    |-> None,
    file_map   |-> {},
    chunk_map  |-> [f \in {} |-> ZeroTable],
    xml        |-> "none",
    dpla_colors    |-> <<>>,
    dpla_durations |-> <<>>,
    ani0 |-> <<>>, ani1 |-> <<>>, dur0 |-> 0, dur1 |-> 0,
    chunk  |-> 0,
    raised |-> FALSE,
    models |-> models ]

Raise(s) == [s EXCEPT !.raised = TRUE]

\* The except clause without the assignment of line 113.
except_handler_keep(s) == [s EXCEPT !.raised = FALSE]

\* except BaseException: self.dma.chunk_mappings = self._dma__original_chunk_mappings
except_handler(s) == [s EXCEPT !.dma = s.original, !.raised = FALSE]

\* ------------------------------------------------------------ chunk pool
\* _insert_chunk_or_reuse: the indices i with chunk.getdata() == new_chunk.getdata()
SameData(chunks, new_chunk) ==
  IF getdata_eq = "pixels"
    THEN {i \in 0..(Len(chunks) - 1) : chunks[i + 1] = new_chunk}
    ELSE {}

Min(S) == CHOOSE x \in S : \A y \in S : x <= y

\* Returns [chunks, index].
insert_chunk_or_reuse(chunks, new_chunk) ==
  IF SameData(chunks, new_chunk) # {}
    THEN [chunks |-> chunks, index |-> Min(SameData(chunks, new_chunk))]
    ELSE [chunks |-> Append(chunks, new_chunk), index |-> Len(chunks)]

\* ---------------------------------------------------------- image files
FullSize == <<3 * TILESHEET_WIDTH * CHUNK_DIM, TILESHEET_HEIGHT * CHUNK_DIM>>
TinySize == <<3 * TILESHEET_WIDTH, TILESHEET_HEIGHT>>
NarrowSize == <<3 * TILESHEET_WIDTH - 1, TILESHEET_HEIGHT>>
SheetSizes == {FullSize, TinySize, NarrowSize}

NoCells == [c \in {} |-> 0]
MissingFile ==
  [exists |-> FALSE, mode |-> "P", pal_ok |-> TRUE, palette |-> 1,
   size |-> <<0, 0>>, cells |-> NoCells]

GoodFile(palette, size) ==
  [exists |-> TRUE, mode |-> "P", pal_ok |-> TRUE, palette |-> palette,
   size |-> size, cells |-> NoCells]

\* The image files a path may name: well-formed ones, one that is not
\* indexed, one whose palette is not 256 RGB colors.
ImageFiles(sizes) ==
  { GoodFile(p, z) : p \in Palettes, z \in sizes }
    \cup { [GoodFile(1, z) EXCEPT !.mode = "RGB"] : z \in {CHOOSE z \in sizes : TRUE} }
    \cup { [GoodFile(1, z) EXCEPT !.pal_ok = FALSE] : z \in {CHOOSE z \in sizes : TRUE} }

HeaderWeight(f, plain) ==
  IF ~f.exists \/ f.mode # "P" \/ ~f.pal_ok THEN 1
  ELSE (IF f.size # plain THEN 1 ELSE 0) + (IF f.palette # 1 THEN 1 ELSE 0)

\* Whether grid cell (x, y) of an image of the given pixel size holds pixels
\* of the image; a crop box reaching outside the image is padded with 0.
InImage(size, x, y) == x * CHUNK_DIM < size[1] /\ y * CHUNK_DIM < size[2]
BoxInside(size, x, y) ==
  (x + 1) * CHUNK_DIM <= size[1] /\ (y + 1) * CHUNK_DIM <= size[2]

\* tileset.crop((x*CHUNK_DIM, y*CHUNK_DIM, (x+1)*CHUNK_DIM, (y+1)*CHUNK_DIM))
crop(f, x, y) ==
  IF InImage(f.size, x, y) /\ <<x, y>> \in DOMAIN f.cells
    THEN f.cells[<<x, y>>]
    ELSE EMPTY_IMAGE

\* ------------------------------------------------------- tileset loader
\* _open_tileset without the comparison of line 134.
open_tileset_any_palette(s, basename, f) ==
  IF ~f.exists \/ f.mode # "P" \/ ~f.pal_ok THEN Raise(s)
  ELSE [s EXCEPT !.file_map = @ \cup {basename},
                 !.chunk_map = [n \in (DOMAIN @) \cup {basename} |->
                                  IF n = basename THEN ZeroTable ELSE @[n]],
                 !.palette = IF @ = None THEN f.palette ELSE @]

\* _open_tileset(fn), fn naming file f
open_tileset(s, basename, f) ==
  IF ~f.exists THEN Raise(s)
  ELSE
    LET s1 == [s EXCEPT !.file_map = @ \cup {basename},
                        !.chunk_map = [n \in (DOMAIN @) \cup {basename} |->
                                         IF n = basename THEN ZeroTable ELSE @[n]]]
    IN IF f.mode # "P" THEN Raise(s1)
       ELSE IF ~f.pal_ok THEN Raise(s1)
       ELSE LET s2 == IF s1.palette = None
                        THEN [s1 EXCEPT !.palette = f.palette]
                        ELSE s1
            IN IF f.palette # s2.palette THEN Raise(s2) ELSE s2

\* --------------------------------------------------------- rule importer
BandX(band) == band * TILESHEET_WIDTH

\* Grid position of rule-table entry i (0-based) of a band starting at (bx, by).
PosX(bx, w, i) == bx + (i % w)
PosY(by, w, i) == by + (i \div w)

\* Line 153 with the fallback starting one variation late.
is_empty_variation_late(var_id, cropped) == var_id > 1 /\ cropped = EMPTY_IMAGE

\* Line 153: var_id > 0 and list(cropped.getdata()) == EMPTY_IMAGE
is_empty_variation(var_id, cropped) == var_id > 0 /\ cropped = EMPTY_IMAGE

RECURSIVE import_rules(_, _, _, _, _, _, _, _, _, _)
import_rules(s, fn, f, typ, bx, by, w, var_id, prev_fn, i) ==
  IF i >= Len(RuleVariations) THEN s
  ELSE
    LET x == PosX(bx, w, i)
        y == PosY(by, w, i)
        cropped == crop(f, x, y)
        fallback == is_empty_variation(var_id, cropped)
        ins == insert_chunk_or_reuse(s.chunks, cropped)
    IN IF fallback /\ (prev_fn \notin DOMAIN s.chunk_map
                        \/ <<x, y>> \notin DOMAIN s.chunk_map[prev_fn])
         THEN Raise(s)
         ELSE
           LET chunk_index == IF fallback THEN s.chunk_map[prev_fn][<<x, y>>]
                                          ELSE ins.index
               rules == RuleVariations[i + 1]
               RECURSIVE set_all(_, _)
               set_all(tab, todo) ==
                 IF todo = {} THEN tab
                 ELSE LET r == CHOOSE r \in todo : TRUE
                      IN set_all(dma_set(tab, typ, r, var_id, chunk_index), todo \ {r})
               s1 == [s EXCEPT
                        !.chunks = IF fallback THEN @ ELSE ins.chunks,
                        !.chunk_map[fn] =
                           [c \in (DOMAIN @) \cup {<<x, y>>} |->
                              IF c = <<x, y>> THEN chunk_index ELSE @[c]],
                        !.dma = set_all(@, rules)]
           IN import_rules(s1, fn, f, typ, bx, by, w, var_id, prev_fn, i + 1)

\* _import_tileset(fn, rule_map, typ, bx, by, w, h, var_id, prev_fn) on image f
import_tileset(s, fn, f, typ, bx, by, w, h, var_id, prev_fn) ==
  IF fn \notin s.file_map \/ fn \notin DOMAIN s.chunk_map THEN Raise(s)
  ELSE IF f.size[2] < by + h \/ f.size[1] < bx + w THEN Raise(s)
  ELSE import_rules(s, fn, f, typ, bx, by, w, var_id, prev_fn, 0)

\* ---------------------------------------------------------------- steps
Running == {t \in Targets : result[t] = "running"}

\* One step of do_import on every importer of the call: F is the step, nxt
\* the position reached when it returns.  An importer whose step raises
\* runs the except clause of do_import and leaves the call.
Step(F(_), nxt) ==
  LET new == [t \in Targets |-> IF t \in Running THEN F(imp[t]) ELSE imp[t]]
      alive == {t \in Running : ~new[t].raised}
  IN /\ imp' = [t \in Targets |->
                  IF new[t].raised THEN except_handler(new[t]) ELSE new[t]]
     /\ result' = [t \in Targets |->
                  IF t \notin Running THEN result[t]
                  ELSE IF new[t].raised THEN "failed"
                  ELSE IF nxt = "idle" THEN "ok" ELSE "running"]
     /\ pc' = IF alive = {} THEN "idle" ELSE nxt
     /\ good' = [t \in Targets |->
                  IF t \in alive /\ nxt = "idle" THEN new[t].dma ELSE good[t]]

\* Reading w XML elements and i painted cells (or the like).
Read(w, i) ==
  /\ detail + w <= MaxXml /\ detail' = detail + w
  /\ ink + i <= (IF active = Targets THEN MaxInk ELSE MaxSoloInk)
  /\ ink' = ink + i
  /\ 2 * ink' + detail' <= 2 * MaxInk
Charge(w) == Read(w, 0)
Paint(i) == Read(0, i)

NoCur == [i |-> 0, band |-> 0]

Init ==
  /\ getdata_eq \in {"pixels", "identity"}
  /\ imp = [t \in Targets |-> init(CallerTable(t), CallerModels(t))]
  /\ pc = "idle"
  /\ cur = NoCur
  /\ result = [t \in Targets |-> "none"]
  /\ active = {}
  /\ files = [n \in {} |-> MissingFile]
  /\ xmlseen = <<>>
  /\ crops = {}
  /\ last = [kind |-> "none"]
  /\ pre = [t \in Targets |-> [dma |-> imp[t].dma, models |-> imp[t].models]]
  /\ good = [t \in Targets |-> CallerTable(t)]
  /\ detail = 0
  /\ ink = 0
  /\ calls = 0

\* do_import is called (line 72: the reset by self.__init__).
DoImport(who) ==
  /\ pc = "idle"
  /\ calls < MaxImports
  /\ who = Targets \/ calls = 0
  /\ active # Targets
  /\ calls' = calls + 1
  /\ active' = who
  /\ pre' = [t \in Targets |->
               IF t \in who THEN [dma |-> imp[t].dma, models |-> imp[t].models]
               ELSE pre[t]]
  /\ imp' = [t \in Targets |->
               IF t \in who THEN init(imp[t].dma, imp[t].models) ELSE imp[t]]
  /\ result' = [t \in Targets |-> IF t \in who THEN "running" ELSE result[t]]
  /\ pc' = "assert_xml"
  /\ cur' = NoCur
  /\ files' = [n \in {} |-> MissingFile]
  /\ xmlseen' = <<>>
  /\ crops' = {}
  /\ last' = [kind |-> "call"]
  /\ UNCHANGED <<getdata_eq, good, ink, detail>>

\* self._assert_file_exists(fn_xml)
AssertXmlExists(exists) ==
  /\ pc = "assert_xml"
  /\ Step(LAMBDA s : IF exists THEN s ELSE Raise(s), "open")
  /\ Paint(IF exists THEN 0 ELSE 1)
  /\ last' = [kind |-> "xml_exists", exists |-> exists]
  /\ UNCHANGED <<getdata_eq, cur, active, files, xmlseen, crops, pre, calls>>

\* self._open_tileset(fn_var<i>)
OpenTileset(f) ==
  /\ pc = "open"
  /\ Paint(HeaderWeight(f, FullSize))
  /\ files' = [n \in (DOMAIN files) \cup {SheetNames[cur.i + 1]} |->
                 IF n = SheetNames[cur.i + 1] THEN f ELSE files[n]]
  /\ Step(LAMBDA s : open_tileset(s, SheetNames[cur.i + 1], f),
          IF cur.i = 2 THEN "parse_xml" ELSE "open")
  /\ cur' = IF pc' = "open" THEN [cur EXCEPT !.i = @ + 1] ELSE NoCur
  /\ last' = [kind |-> "open", fn |-> SheetNames[cur.i + 1]]
  /\ UNCHANGED <<getdata_eq, active, xmlseen, crops, pre, calls>>

\* Lines 79-84: parse the XML and validate its root.
GoodRoot == [parses |-> TRUE, tag |-> "dungeon-tileset", dimensions |-> CHUNK_DIM]
XmlRoots ==
  { GoodRoot,
    [GoodRoot EXCEPT !.parses = FALSE],
    [GoodRoot EXCEPT !.tag = "other"],
    [GoodRoot EXCEPT !.dimensions = None],
    [GoodRoot EXCEPT !.dimensions = 16] }

parse_xml(s, root) ==
  IF ~root.parses THEN Raise(s)
  ELSE LET s1 == [s EXCEPT !.xml = "loaded"]
       IN IF root.tag # "dungeon-tileset" THEN Raise(s1)
          ELSE IF root.dimensions = None THEN Raise(s1)
          ELSE IF root.dimensions # CHUNK_DIM THEN Raise(s1)
          ELSE s1

ParseXml(root) ==
  /\ pc = "parse_xml"
  /\ Step(LAMBDA s : parse_xml(s, root), "import_tileset")
  /\ cur' = NoCur
  /\ Paint(IF root = GoodRoot THEN 0 ELSE 1)
  /\ last' = [kind |-> "xml_root", root |-> root]
  /\ UNCHANGED <<getdata_eq, active, files, xmlseen, crops, pre, calls>>

\* The grid positions the rule table uses in a band starting at column bx.
BandCells(bx) ==
  { <<PosX(bx, TILESHEET_WIDTH, i), PosY(0, TILESHEET_WIDTH, i)>> :
      i \in 0..(Len(RuleVariations) - 1) }

Painted(cells) == Cardinality({c \in DOMAIN cells : cells[c] # EMPTY_IMAGE})

\* Lines 93-96: the locals of the animation loop.
begin_children(s) ==
  [s EXCEPT !.ani0 = [i \in 1..16 |-> <<>>], !.ani1 = [i \in 1..16 |-> <<>>],
            !.dur0 = 0, !.dur1 = 0]

\* The sheet and band of the next _import_tileset call of the loop, and the
\* cells of that band that hold pixels of the sheet.
CurFn == SheetNames[cur.i + 1]
CurChecked ==
  ~(files[CurFn].size[2] < TILESHEET_HEIGHT
      \/ files[CurFn].size[1] < BandX(cur.band) + TILESHEET_WIDTH)
CurCells ==
  IF pc = "import_tileset" /\ CurChecked
    THEN {c \in BandCells(BandX(cur.band)) : InImage(files[CurFn].size, c[1], c[2])}
    ELSE {}

\* Lines 88-91: one _import_tileset call of the loop.  px are the pixels the
\* sheet holds in the cells of the band.
ImportTileset(px) ==
  LET fn == CurFn
      bx == BandX(cur.band)
      prev_fn == IF cur.i > 0 THEN SheetNames[cur.i] ELSE "None"
      f == [files[fn] EXCEPT !.cells =
              [c \in (DOMAIN @) \cup DOMAIN px |->
                 IF c \in DOMAIN px THEN px[c] ELSE @[c]]]
      lastcall == cur.i = 2 /\ cur.band = 2
  IN /\ pc = "import_tileset"
     /\ Paint(Painted(px))
     /\ files' = [files EXCEPT ![fn] = f]
     /\ crops' = IF CurChecked
                   THEN {[size |-> f.size, x |-> c[1], y |-> c[2]] : c \in BandCells(bx)}
                   ELSE {}
     /\ Step(LAMBDA s :
               LET r == import_tileset(s, fn, f, DmaTypes[cur.band + 1], bx, 0,
                                       TILESHEET_WIDTH, TILESHEET_HEIGHT, cur.i, prev_fn)
               IN IF lastcall /\ ~r.raised THEN begin_children(r) ELSE r,
             IF lastcall THEN "children" ELSE "import_tileset")
     /\ cur' = IF pc' # "import_tileset" THEN NoCur
               ELSE IF cur.band = 2 THEN [i |-> cur.i + 1, band |-> 0]
               ELSE [cur EXCEPT !.band = @ + 1]
     /\ last' = [kind |-> "import_tileset", fn |-> fn, band |-> cur.band,
                 var_id |-> cur.i, checked |-> CurChecked]
     /\ UNCHANGED <<getdata_eq, active, xmlseen, pre, calls>>

\* ---------------------------------------------------- animation importer
HexDigits == <<"0", "1", "2", "3", "4", "5", "6", "7", "8", "9",
               "a", "b", "c", "d", "e", "f">>
IsHex(ch) == \E d \in 1..16 : HexDigits[d] = ch
HexVal(ch) == (CHOOSE d \in 1..16 : HexDigits[d] = ch) - 1

\* h[i:j] of Python, on a sequence of characters (0-based, j exclusive).
Slice(h, i, j) ==
  SubSeq(h, i + 1, IF j < Len(h) THEN j ELSE Len(h))

\* Whether int(text, 16) returns, and what.
IntOk16(text) == Len(text) > 0 /\ \A k \in 1..Len(text) : IsHex(text[k])
RECURSIVE Int16(_)
Int16(text) ==
  IF text = <<>> THEN 0
  ELSE 16 * Int16(SubSeq(text, 1, Len(text) - 1)) + HexVal(text[Len(text)])

\* _convert_hex_str_color_to_tuple
HexColorOk(h) == \A i \in {0, 2, 4} : IntOk16(Slice(h, i, i + 2))
convert_hex_str_color_reversed(h) ==
  <<Int16(Slice(h, 4, 6)), Int16(Slice(h, 2, 4)), Int16(Slice(h, 0, 2))>>

convert_hex_str_color_to_tuple(h) ==
  <<Int16(Slice(h, 0, 2)), Int16(Slice(h, 2, 4)), Int16(Slice(h, 4, 6))>>

\* The text a color of the given bytes is written as in the XML.
HexByte(n) == <<HexDigits[(n \div 16) + 1], HexDigits[(n % 16) + 1]>>
HexText(rgb) == HexByte(rgb[1]) \o HexByte(rgb[2]) \o HexByte(rgb[3])

\* Frame k of the package's animations: color i is FrameColor(k, i).
FrameColor(k, i) == <<(16 * k + i) % 256, 255 - i, (77 * k) % 256>>
GoodFrame(k) ==
  [tag |-> "frame",
   colors |-> [i \in 1..16 |-> [tag |-> "color", text |-> HexText(FrameColor(k, i))]]]
BadFrames ==
  { [GoodFrame(1) EXCEPT !.tag = "other"],
    [GoodFrame(1) EXCEPT !.colors = SubSeq(@, 1, 15)],
    [GoodFrame(1) EXCEPT !.colors[3].tag = "other"],
    [GoodFrame(1) EXCEPT !.colors[3].text = <<"f", "f", "0", "0">>],
    [GoodFrame(1) EXCEPT !.colors[3].text = <<"g", "0", "0", "0", "0", "0">>] }
GoodFrames == {GoodFrame(k) : k \in 1..MaxFrames}

\* Sequences of at most n good frames, and those followed by one bad frame
\* (no frame after a bad one is read).
RECURSIVE GoodFrameSeqs(_)
GoodFrameSeqs(n) ==
  IF n = 0 THEN {<<>>}
  ELSE GoodFrameSeqs(n - 1)
         \cup {Append(q, g) : q \in {q \in GoodFrameSeqs(n - 1) : Len(q) = n - 1},
                              g \in GoodFrames}
FrameSeqs ==
  GoodFrameSeqs(MaxFrames)
    \cup {Append(q, b) : q \in GoodFrameSeqs(MaxFrames - 1), b \in BadFrames}

\* The duration attribute: a decimal number, or text int() rejects.
Number(n) == [numeric |-> TRUE, value |-> n]
NotANumber == [numeric |-> FALSE, value |-> 0]
Durations == {Number(20)}
Animations ==
  { [tag |-> "animation", has_attrs |-> TRUE, palette |-> p, duration |-> d,
     frames |-> q] : p \in {"10", "11"}, d \in Durations, q \in FrameSeqs }
    \cup { [tag |-> "animation", has_attrs |-> TRUE, palette |-> "12",
            duration |-> Number(20), frames |-> <<>>],
           [tag |-> "animation", has_attrs |-> FALSE, palette |-> "10",
            duration |-> Number(20), frames |-> <<>>],
           [tag |-> "animation", has_attrs |-> TRUE, palette |-> "10",
            duration |-> NotANumber, frames |-> <<>>] }

\* One frame of _prepare_import_animation: [ok, colors].
add_frame(colors, frame) ==
  IF frame.tag # "frame" THEN [ok |-> FALSE, colors |-> colors]
  ELSE IF Len(frame.colors) # 16 THEN [ok |-> FALSE, colors |-> colors]
  ELSE IF \E i \in 1..16 : frame.colors[i].tag # "color"
                             \/ ~HexColorOk(frame.colors[i].text)
    THEN [ok |-> FALSE, colors |-> colors]
  ELSE [ok |-> TRUE,
        colors |-> [i \in 1..16 |->
                      colors[i] \o convert_hex_str_color_to_tuple(frame.colors[i].text)]]

RECURSIVE add_frames(_, _, _)
add_frames(colors, frames, k) ==
  IF k > Len(frames) THEN [ok |-> TRUE, colors |-> colors]
  ELSE LET r == add_frame(colors, frames[k])
       IN IF r.ok THEN add_frames(r.colors, frames, k + 1) ELSE r

\* _prepare_import_animation(child): [ok, colors, duration]
prepare_import_animation(child) ==
  LET r == add_frames([i \in 1..16 |-> <<>>], child.frames, 1)
  IN IF ~r.ok \/ ~child.duration.numeric
       THEN [ok |-> FALSE, colors |-> r.colors, duration |-> 0]
       ELSE [ok |-> TRUE, colors |-> r.colors, duration |-> child.duration.value]

\* Lines 98-105: an <animation> child.
animation_child(s, child) ==
  IF ~child.has_attrs THEN Raise(s)
  ELSE IF child.palette = "10" THEN
    LET r == prepare_import_animation(child)
    IN IF r.ok THEN [s EXCEPT !.ani0 = r.colors, !.dur0 = r.duration] ELSE Raise(s)
  ELSE IF child.palette = "11" THEN
    LET r == prepare_import_animation(child)
    IN IF r.ok THEN [s EXCEPT !.ani1 = r.colors, !.dur1 = r.duration] ELSE Raise(s)
  ELSE Raise(s)

\* _import_animation(ani0, ani1, dur0, dur1)
import_animation(s) ==
  [s EXCEPT !.dpla_colors = s.ani0 \o s.ani1,
            !.dpla_durations = [i \in 1..16 |-> s.dur0] \o [i \in 1..16 |-> s.dur1]]

\* _merge_chunks: the strip image, or failure on self._chunks[1]
merge_chunks_ok(s) == Len(s.chunks) >= 2

\* _finalize writing the animation table before the strip is encoded.
finalize_eager(s, encodes) ==
  IF ~merge_chunks_ok(s) THEN Raise(s)
  ELSE IF ~encodes
    THEN Raise([s EXCEPT !.models.colors = s.dpla_colors,
                         !.models.durations = s.dpla_durations])
  ELSE [s EXCEPT !.models = [tiles |-> s.chunks, palettes |-> s.palette,
                             colors |-> s.dpla_colors,
                             durations |-> s.dpla_durations]]

\* _finalize; encodes tells whether dpc.pil_to_chunks returns or raises.
finalize(s, encodes) ==
  IF ~merge_chunks_ok(s) THEN Raise(s)
  ELSE IF ~encodes THEN Raise(s)
  ELSE [s EXCEPT !.models = [tiles |-> s.chunks, palettes |-> s.palette,
                             colors |-> s.dpla_colors,
                             durations |-> s.dpla_durations]]

AnimationChild(child) ==
  /\ pc = "children"
  /\ Charge(1 + Len(child.frames))
  /\ Step(LAMBDA s : animation_child(s, child), "children")
  /\ xmlseen' = Append(xmlseen, child)
  /\ last' = [kind |-> "animation"]
  /\ UNCHANGED <<getdata_eq, cur, active, files, crops, pre, calls>>

\* A child that is neither <animation> nor <additional-tiles> is skipped.
OtherChild ==
  /\ pc = "children"
  /\ Charge(1)
  /\ Step(LAMBDA s : s, "children")
  /\ last' = [kind |-> "other_child"]
  /\ UNCHANGED <<getdata_eq, cur, active, files, xmlseen, crops, pre, calls>>

\* Lines 108-110: the children are exhausted.
Finalize(encodes) ==
  /\ pc = "children"
  /\ Step(LAMBDA s : finalize(import_animation(s), encodes), "idle")
  /\ Paint(IF encodes THEN 0 ELSE 1)
  /\ last' = [kind |-> "finalize", encodes |-> encodes]
  /\ UNCHANGED <<getdata_eq, cur, active, files, xmlseen, crops, pre, calls>>

\* ----------------------------------------------- additional-tile importer
\* os.path.basename(os.path.join(dirname, fn)) of the file names a <tile>
\* may give.
TileFiles == {"var0.png", "extra.png", "sub/extra.png"}
Basename(fn) == IF fn = "sub/extra.png" THEN "extra.png" ELSE fn

ExtraSizes == {<<CHUNK_DIM, CHUNK_DIM>>, <<2 * CHUNK_DIM, CHUNK_DIM>>}

\* range(0, n, CHUNK_DIM), divided by CHUNK_DIM
GridRange(n) == {k \in 0..n : k * CHUNK_DIM < n}
GridCells(size) == GridRange(size[1]) \X GridRange(size[2])

\* Lines 233-236: every cell of the image goes through the pool, row by row.
RECURSIVE partition(_, _, _, _)
partition(s, fn, f, todo) ==
  IF todo = {} THEN s
  ELSE LET c == CHOOSE c \in todo :
                  \A d \in todo : c[2] < d[2] \/ (c[2] = d[2] /\ c[1] <= d[1])
           ins == insert_chunk_or_reuse(s.chunks, crop(f, c[1], c[2]))
           s1 == [s EXCEPT !.chunks = ins.chunks,
                           !.chunk_map[fn] =
                              [k \in (DOMAIN @) \cup {c} |->
                                 IF k = c THEN ins.index ELSE @[k]]]
       IN partition(s1, fn, f, todo \ {c})

\* _read_additional_chunk_idx(fn, x, y, dirname), f the file the path names:
\* sets s.chunk to the index returned.
read_additional_chunk_idx(s, fn, x, y, f) ==
  LET s1 == IF fn \notin s.file_map
              THEN LET o == open_tileset(s, Basename(fn), f)
                   IN IF o.raised THEN o
                      ELSE IF fn \notin o.file_map \/ fn \notin DOMAIN o.chunk_map
                        THEN Raise(o)
                        ELSE partition(o, fn, f, GridCells(f.size))
              ELSE s
  IN IF s1.raised THEN s1
     ELSE IF fn \notin DOMAIN s1.chunk_map \/ <<x, y>> \notin DOMAIN s1.chunk_map[fn]
       THEN Raise(s1)
       ELSE [s1 EXCEPT !.chunk = s1.chunk_map[fn][<<x, y>>]]

\* Lines 172-177: a <tile> element.
Tiles ==
  { [tag |-> "tile", has_attrs |-> TRUE, file |-> fn, x |-> Number(x), y |-> Number(y)] :
      fn \in TileFiles, x \in {0, 1}, y \in {0, 1} }
    \cup { [tag |-> "other", has_attrs |-> TRUE, file |-> "extra.png",
            x |-> Number(0), y |-> Number(0)],
           [tag |-> "tile", has_attrs |-> FALSE, file |-> "extra.png",
            x |-> Number(0), y |-> Number(0)],
           [tag |-> "tile", has_attrs |-> TRUE, file |-> "extra.png",
            x |-> NotANumber, y |-> Number(0)] }

tile_element(s, tile, f) ==
  IF tile.tag # "tile" THEN Raise(s)
  ELSE IF ~tile.has_attrs THEN Raise(s)
  ELSE IF ~tile.x.numeric \/ ~tile.y.numeric THEN Raise(s)
  ELSE read_additional_chunk_idx(s, tile.file, tile.x.value, tile.y.value, f)

\* Lines 184-200: the neighbor bits of a <mapping>.
Directions == {"nw", "n", "ne", "e", "se", "s", "sw", "w"}
DmaNeighbor(d) ==
  CASE d = "s" -> 1 [] d = "se" -> 2 [] d = "e" -> 4 [] d = "ne" -> 8
    [] d = "n" -> 16 [] d = "nw" -> 32 [] d = "w" -> 64 [] d = "sw" -> 128

RECURSIVE neighbor_bits(_, _)
neighbor_bits(flags, todo) ==
  IF todo = {} THEN 0
  ELSE LET d == CHOOSE d \in todo : TRUE
       IN (IF flags[d] # 0 THEN DmaNeighbor(d) ELSE 0) + neighbor_bits(flags, todo \ {d})

Flags(on) == [d \in Directions |-> IF d \in on THEN 1 ELSE 0]
GoodMapping(typ, var, on) ==
  [tag |-> "mapping", has_attrs |-> TRUE, type |-> typ, variation |-> Number(var),
   flags |-> Flags(on)]
Mappings ==
  { GoodMapping(typ, var, on) :
      typ \in {"floor", "wall", "secondary"}, var \in {0, 2},
      on \in {{"s"}, {"n", "e", "sw"}} }
    \cup { GoodMapping("lava", 0, {}), GoodMapping("floor", 3, {}),
           GoodMapping("wall", -1, {}),
           [GoodMapping("wall", 0, {}) EXCEPT !.has_attrs = FALSE],
           [GoodMapping("wall", 0, {}) EXCEPT !.variation = NotANumber] }

\* Lines 179-215: a <mapping> child of a tile.
mapping_element(s, m) ==
  IF ~m.has_attrs THEN Raise(s)
  ELSE IF m.type \notin {"floor", "wall", "secondary"} THEN Raise(s)
  ELSE IF ~m.variation.numeric THEN Raise(s)
  ELSE IF m.variation.value < 0 \/ m.variation.value > 2 THEN Raise(s)
  ELSE LET n == neighbor_bits(m.flags, Directions)
           typ == CASE m.type = "floor" -> "FLOOR"
                    [] m.type = "wall" -> "WALL"
                    [] m.type = "secondary" -> "WATER"
       IN [s EXCEPT !.dma = dma_set(@, typ, n, m.variation.value, s.chunk)]

\* Lines 43-45: the literal each pattern starts with.
EOS_EXTRA == <<"E", "O", "S", "_", "E", "X", "T", "R", "A", "_">>
PATTERN_FLOOR1 == EOS_EXTRA \o <<"F", "L", "O", "O", "R", "1", "_">>
PATTERN_FLOOR2 == EOS_EXTRA \o <<"F", "L", "O", "O", "R", "2", "_">>
PATTERN_WALL_OR_VOID ==
  EOS_EXTRA \o <<"W", "A", "L", "L", "_", "O", "R", "_", "V", "O", "I", "D", "_">>

IsDigit(ch) == ch \in {"0", "1", "2", "3", "4", "5", "6", "7", "8", "9"}
DigitVal(ch) == HexVal(ch)

\* The longest run of digits of text starting at position k.
RECURSIVE DigitRun(_, _)
DigitRun(text, k) ==
  IF k <= Len(text) /\ IsDigit(text[k]) THEN <<text[k]>> \o DigitRun(text, k + 1)
  ELSE <<>>

RECURSIVE Int10(_)
Int10(text) ==
  IF text = <<>> THEN 0
  ELSE 10 * Int10(SubSeq(text, 1, Len(text) - 1)) + DigitVal(text[Len(text)])

\* A match that skips the literal instead of comparing it.
re_match_any_literal(literal, text) ==
  IF Len(text) > Len(literal) /\ DigitRun(text, Len(literal) + 1) # <<>>
    THEN Int10(DigitRun(text, Len(literal) + 1))
    ELSE -1

\* pattern.match(text) of <literal>(\d+): -1 for no match, else int(m.group(1)).
re_match(literal, text) ==
  IF Len(text) > Len(literal)
       /\ SubSeq(text, 1, Len(literal)) = literal
       /\ DigitRun(text, Len(literal) + 1) # <<>>
    THEN Int10(DigitRun(text, Len(literal) + 1))
    ELSE -1

\* One "m = PATTERN.match(...); if m: self.dma.set_extra(...)" of lines 219-227.
match_and_set(s, literal, extra_type, text) ==
  LET n == re_match(literal, text)
  IN IF s.raised \/ n < 0 THEN s
     ELSE IF n >= DMA_EXTRA_SLOTS THEN Raise(s)
     ELSE [s EXCEPT !.dma = dma_set_extra(@, extra_type, n, s.chunk)]

\* Lines 217-227: a <special-mapping> child of a tile.
special_mapping_element(s, m) ==
  IF ~m.has_attrs THEN Raise(s)
  ELSE match_and_set(
         match_and_set(
           match_and_set(s, PATTERN_FLOOR1, "FLOOR1", m.identifier),
           PATTERN_FLOOR2, "FLOOR2", m.identifier),
         PATTERN_WALL_OR_VOID, "WALL_OR_VOID", m.identifier)

Identifiers ==
  { PATTERN_FLOOR1 \o <<"3">>,
    PATTERN_FLOOR2 \o <<"3">>,
    PATTERN_WALL_OR_VOID \o <<"3">>,
    PATTERN_FLOOR1 \o <<"0", "1", "2">>,
    PATTERN_FLOOR2 \o <<"1", "6">>,
    PATTERN_FLOOR1 \o <<"3", "x">>,
    PATTERN_FLOOR1,
    <<"X">> \o PATTERN_FLOOR1 \o <<"3">>,
    <<"F", "O", "O", "_", "B", "A", "R">> }
SpecialMappings ==
  { [tag |-> "special-mapping", has_attrs |-> TRUE, identifier |-> id] :
      id \in Identifiers }
    \cup { [tag |-> "special-mapping", has_attrs |-> FALSE,
            identifier |-> PATTERN_FLOOR1 \o <<"3">>] }

\* <additional-tiles>: _import_additional_tiles starts on its tiles.
AdditionalTilesChild ==
  /\ pc = "children"
  /\ Charge(1)
  /\ Step(LAMBDA s : s, "tiles")
  /\ last' = [kind |-> "additional_tiles"]
  /\ UNCHANGED <<getdata_eq, cur, active, files, xmlseen, crops, pre, calls>>

\* The file a tile names, when this call has not read it yet.
ExtraFiles ==
  { [f EXCEPT !.cells = px] :
      f \in ImageFiles(ExtraSizes), px \in UNION {[GridCells(z) -> Contents] : z \in ExtraSizes} }
    \cup {MissingFile}

TileElement(tile, f) ==
  LET base == Basename(tile.file)
      fresh == base \notin DOMAIN files
  IN /\ pc = "tiles"
     /\ IF fresh
          THEN f.exists => DOMAIN f.cells = GridCells(f.size)
          ELSE f = files[base]
     /\ Read(1, IF fresh THEN HeaderWeight(f, f.size) + Painted(f.cells) ELSE 0)
     /\ files' = IF fresh
                   THEN [n \in (DOMAIN files) \cup {base} |->
                           IF n = base THEN f ELSE files[n]]
                   ELSE files
     /\ Step(LAMBDA s : tile_element(s, tile, f), "mappings")
     /\ last' = [kind |-> "tile", tile |-> tile, fresh |-> fresh]
     /\ UNCHANGED <<getdata_eq, cur, active, xmlseen, crops, pre, calls>>

MappingElement(m) ==
  /\ pc = "mappings"
  /\ Charge(1)
  /\ Step(LAMBDA s : mapping_element(s, m), "mappings")
  /\ last' = [kind |-> "mapping", mapping |-> m]
  /\ UNCHANGED <<getdata_eq, cur, active, files, xmlseen, crops, pre, calls>>

SpecialMappingElement(m) ==
  /\ pc = "mappings"
  /\ Charge(1)
  /\ Step(LAMBDA s : special_mapping_element(s, m), "mappings")
  /\ last' = [kind |-> "special_mapping", mapping |-> m]
  /\ UNCHANGED <<getdata_eq, cur, active, files, xmlseen, crops, pre, calls>>

\* A child of a tile that is neither <mapping> nor <special-mapping> is skipped.
OtherElement ==
  /\ pc = "mappings"
  /\ Charge(1)
  /\ Step(LAMBDA s : s, "mappings")
  /\ last' = [kind |-> "other_element"]
  /\ UNCHANGED <<getdata_eq, cur, active, files, xmlseen, crops, pre, calls>>

\* The children of the tile are exhausted.
EndTile ==
  /\ pc = "mappings"
  /\ Step(LAMBDA s : s, "tiles")
  /\ last' = [kind |-> "end_tile"]
  /\ UNCHANGED <<getdata_eq, cur, active, files, xmlseen, crops, pre, ink, detail, calls>>

\* The tiles of the <additional-tiles> are exhausted.
EndAdditionalTiles ==
  /\ pc = "tiles"
  /\ Step(LAMBDA s : s, "children")
  /\ last' = [kind |-> "end_additional_tiles"]
  /\ UNCHANGED <<getdata_eq, cur, active, files, xmlseen, crops, pre, ink, detail, calls>>

Next ==
  \/ pc = "idle" /\ \E who \in {Targets, {2}} : DoImport(who)
  \/ pc = "assert_xml" /\ \E e \in BOOLEAN : AssertXmlExists(e)
  \/ pc = "open" /\ \E f \in ImageFiles(SheetSizes) \cup {MissingFile} : OpenTileset(f)
  \/ pc = "parse_xml" /\ \E r \in XmlRoots : ParseXml(r)
  \/ pc = "import_tileset" /\ \E px \in [CurCells -> Contents] : ImportTileset(px)
  \/ pc = "children" /\ \E a \in Animations : AnimationChild(a)
  \/ OtherChild
  \/ AdditionalTilesChild
  \/ pc = "tiles" /\ \E tile \in Tiles :
       \E f \in IF Basename(tile.file) \in DOMAIN files
                  THEN {files[Basename(tile.file)]} ELSE ExtraFiles :
         TileElement(tile, f)
  \/ pc = "mappings" /\ \E m \in Mappings : MappingElement(m)
  \/ pc = "mappings" /\ \E m \in SpecialMappings : SpecialMappingElement(m)
  \/ OtherElement
  \/ EndTile
  \/ EndAdditionalTiles
  \/ pc = "children" /\ \E e \in BOOLEAN : Finalize(e)

Spec == Init /\ [][Next]_vars

\* ------------------------------------------------------------ properties
\* The cells an importer has resolved to a chunk index, and what they hold.
ResolvedCells(t) ==
  UNION {{<<fn, c>> : c \in DOMAIN imp[t].chunk_map[fn]} : fn \in DOMAIN imp[t].chunk_map}
CellContent(a) == crop(files[a[1]], a[2][1], a[2][2])
CellIndex(t, a) == imp[t].chunk_map[a[1]][a[2]]
VariationOf(fn) ==
  IF \E v \in 0..2 : SheetNames[v + 1] = fn
    THEN CHOOSE v \in 0..2 : SheetNames[v + 1] = fn
    ELSE 0

\* C1: when do_import has raised, at whatever stage, every entry of the
\* target's neighbor-mapping table has the value it had just before the call.
C1_Rollback ==
  \A t \in Targets : result[t] = "failed" => imp[t].dma = pre[t].dma

C1_Witness ==
  /\ result[2] = "failed"
  /\ pre[2].dma # ZeroTable
  /\ last.kind \in {"import_tileset", "tile", "mapping", "finalize"}

\* C2: any two distinct grid cells resolved in one import hold the same
\* chunk index exactly if their pixel contents are the same.
C2_Dedup ==
  \A t \in Targets : \A a \in ResolvedCells(t) : \A b \in ResolvedCells(t) :
    a # b => ((CellContent(a) = CellContent(b)) <=> (CellIndex(t, a) = CellIndex(t, b)))

\* C3: after an _import_tileset call for variation v > 0, every rule of a
\* grid position whose cell is empty in v's sheet maps to the index of the
\* same position in v-1's sheet, and the pool has grown by no more than the
\* cells that went through it.
C3_EmptyCellFallback ==
  \A t \in Targets :
    (last.kind = "import_tileset" /\ last.checked /\ result[t] = "running") =>
      /\ last.var_id > 0 =>
           \A i \in 0..(Len(RuleVariations) - 1) :
             LET x == PosX(BandX(last.band), TILESHEET_WIDTH, i)
                 y == PosY(0, TILESHEET_WIDTH, i)
             IN crop(files[last.fn], x, y) = EMPTY_IMAGE =>
                  \A rule \in RuleVariations[i + 1] :
                    Get(imp[t].dma, <<DmaTypes[last.band + 1], rule, last.var_id>>)
                      = imp[t].chunk_map[SheetNames[last.var_id]][<<x, y>>]
      /\ Len(imp[t].chunks) <=
           1 + Cardinality({a \in ResolvedCells(t) :
                              ~(VariationOf(a[1]) > 0 /\ CellContent(a) = EMPTY_IMAGE)})

C3_Witness ==
  /\ last.kind = "import_tileset" /\ last.var_id = 2 /\ result[1] = "running"
  /\ \E c \in BandCells(BandX(last.band)) :
       /\ crop(files[SheetNames[1]], c[1], c[2]) # EMPTY_IMAGE
       /\ crop(files[SheetNames[2]], c[1], c[2]) = EMPTY_IMAGE
       /\ crop(files[SheetNames[3]], c[1], c[2]) = EMPTY_IMAGE
       /\ imp[1].chunk_map[SheetNames[3]][c] = imp[1].chunk_map[SheetNames[1]][c]
       /\ imp[1].chunk_map[SheetNames[1]][c] > 0

\* C4: no cell is cropped from outside its image: a sheet smaller than the
\* grid region of a band fails the size check before the band is cropped.
C4_SizeCheck ==
  \A c \in crops : BoxInside(c.size, c.x, c.y)

\* C5: loading an image whose palette differs from the palette of the first
\* image loaded fails, and leaves the chunk pool as it was.
LoadedFile(t) ==
  IF last'.kind = "open" THEN {files'[last'.fn]}
  ELSE IF last'.kind = "tile" /\ last'.tile.tag = "tile" /\ last'.tile.has_attrs
            /\ last'.tile.x.numeric /\ last'.tile.y.numeric
            /\ last'.tile.file \notin imp[t].file_map
    THEN {files'[Basename(last'.tile.file)]}
  ELSE {}
C5_PaletteMismatch ==
  [][\A t \in Running : \A f \in LoadedFile(t) :
       (f.exists /\ f.mode = "P" /\ f.pal_ok
          /\ imp[t].palette # None /\ f.palette # imp[t].palette)
         => (result'[t] = "failed" /\ imp'[t].chunks = imp[t].chunks)]_vars

C5_Witness ==
  /\ last.kind = "tile" /\ result[1] = "failed"
  /\ "extra.png" \in DOMAIN files
  /\ files["extra.png"].exists /\ files["extra.png"].mode = "P"
  /\ files["extra.png"].pal_ok
  /\ files["extra.png"].palette # imp[1].palette
  /\ Len(imp[1].chunks) > 1

\* C6: after the same package has been imported into both targets, whatever
\* they held before, the two chunk pools and the two tables are equal.
C6_Idempotence ==
  (active = Targets /\ result[1] = "ok" /\ result[2] = "ok") =>
    (imp[1].chunks = imp[2].chunks /\ imp[1].dma = imp[2].dma)

C6_Witness ==
  /\ active = Targets /\ result[1] = "ok" /\ result[2] = "ok"
  /\ pre[2].dma # pre[1].dma
  /\ imp[1].dma # ZeroTable

\* C7: after a successful import the animation table holds 32 sequences and
\* 32 durations: 0..15 from the palette-10 element, 16..31 from the
\* palette-11 element, slot i holding color i of each frame in order.
AnimationsOf(p) == {k \in 1..Len(xmlseen) : xmlseen[k].palette = p}
LastAnimation(p) ==
  xmlseen[CHOOSE k \in AnimationsOf(p) : \A j \in AnimationsOf(p) : j <= k]
FrameNumber(frame) == CHOOSE k \in 1..MaxFrames : GoodFrame(k) = frame
RECURSIVE SlotBytes(_, _)
SlotBytes(frames, i) ==
  IF frames = <<>> THEN <<>>
  ELSE FrameColor(FrameNumber(Head(frames)), i) \o SlotBytes(Tail(frames), i)
ExpectedTrack(p) ==
  [i \in 1..16 |->
     IF AnimationsOf(p) = {} THEN <<>> ELSE SlotBytes(LastAnimation(p).frames, i)]
ExpectedDuration(p) ==
  IF AnimationsOf(p) = {} THEN 0 ELSE LastAnimation(p).duration.value
C7_AnimationOutput ==
  \A t \in Targets :
    result[t] = "ok" =>
      /\ Len(imp[t].models.colors) = 32
      /\ Len(imp[t].models.durations) = 32
      /\ \A i \in 1..16 :
           /\ imp[t].models.colors[i] = ExpectedTrack("10")[i]
           /\ imp[t].models.colors[16 + i] = ExpectedTrack("11")[i]
           /\ imp[t].models.durations[i] = ExpectedDuration("10")
           /\ imp[t].models.durations[16 + i] = ExpectedDuration("11")

C7_Witness ==
  /\ result[1] = "ok"
  /\ AnimationsOf("10") # {} /\ AnimationsOf("11") # {}
  /\ Len(LastAnimation("10").frames) + Len(LastAnimation("11").frames) > 0
  /\ \E i \in 1..32 : Len(imp[1].models.colors[i]) = 3

\* C8: a special-mapping whose identifier is EOS_EXTRA_FLOOR1_n,
\* EOS_EXTRA_FLOOR2_n or EOS_EXTRA_WALL_OR_VOID_n writes the tile's chunk
\* index to slot n of that extra table and changes nothing else; one that
\* matches none of the three patterns is accepted and changes nothing.
ExtraPatterns ==
  { <<PATTERN_FLOOR1, "FLOOR1">>, <<PATTERN_FLOOR2, "FLOOR2">>,
    <<PATTERN_WALL_OR_VOID, "WALL_OR_VOID">> }
StartsWith(text, lit) == Len(text) >= Len(lit) /\ SubSeq(text, 1, Len(lit)) = lit
Rest(text, lit) == SubSeq(text, Len(lit) + 1, Len(text))
IsNumber(q) == q # <<>> /\ \A k \in 1..Len(q) : IsDigit(q[k])
NamedSlots(id) ==
  { <<pt[2], Int10(Rest(id, pt[1]))>> :
      pt \in {pt \in ExtraPatterns : StartsWith(id, pt[1]) /\ IsNumber(Rest(id, pt[1]))} }
MatchesNone(id) ==
  \A pt \in ExtraPatterns :
    ~(StartsWith(id, pt[1]) /\ Rest(id, pt[1]) # <<>> /\ IsDigit(Head(Rest(id, pt[1]))))
C8_SpecialMapping ==
  [][(last'.kind = "special_mapping" /\ last'.mapping.has_attrs) =>
       \A t \in Running :
         /\ \A slot \in NamedSlots(last'.mapping.identifier) :
              slot[2] < DMA_EXTRA_SLOTS =>
                /\ result'[t] = "running"
                /\ imp'[t].dma = Put(imp[t].dma, <<slot[1], slot[2], 0>>, imp[t].chunk)
         /\ MatchesNone(last'.mapping.identifier) =>
              (result'[t] = "running" /\ imp'[t].dma = imp[t].dma)]_vars

C8_Witness ==
  /\ last.kind = "special_mapping" /\ result[1] = "running"
  /\ last.mapping.identifier = PATTERN_FLOOR1 \o <<"3">>
  /\ imp[1].chunk > 0
  /\ Get(imp[1].dma, <<"FLOOR1", 3, 0>>) = imp[1].chunk

\* C9: once a do_import call has returned or raised, the table equals the
\* result of the last successful import, or else what the caller handed to
\* the importer.
C9_OriginalSnapshot ==
  \A t \in Targets : result[t] \in {"ok", "failed"} => imp[t].dma = good[t]

\* C10: the tile buffer, the palette table and the animation table change
\* only when an import succeeds: during a call, and after a call that
\* raised, they are what they were before the call.
C10_FinalizerOnly ==
  \A t \in Targets :
    result[t] \in {"running", "failed"} => imp[t].models = pre[t].models

C10_Witness ==
  /\ result[1] = "failed" /\ last.kind = "finalize"
  /\ merge_chunks_ok(imp[1])
  /\ imp[1].dpla_colors # imp[1].models.colors
====
